---------------------------- MODULE Spec2Model ----------------------------
(***************************************************************************)
(* Model of op::PoseRenderer (src/openpose/pose/poseRenderer.cpp): the     *)
(* label table built by createPartToName, the lifetime of the GPU keypoint *)
(* buffer pGpuPose, and the per-frame dispatch of renderPose.              *)
(*                                                                         *)
(* Strings are sequences of one-character strings, so that operator+,      *)
(* find and substr are computed and not assumed.  std::vector is a         *)
(* sequence read through the 0-based VecAt; std::map is a function whose   *)
(* DOMAIN is the set of keys.                                              *)
(***************************************************************************)
EXTENDS Integers, Sequences, FiniteSets, TLC

(***************************************************************************)
(* Bounds of the model.                                                    *)
(***************************************************************************)
\* number of body parts of the generated pose models
NumParts == 2
\* the generated pose models have 0..MaxLimbs limbs
MaxLimbs == 2
\* a limb's first affinity channel lies in NumParts-1..NumParts-1+ChanSpan: it
\* may alias the last part's key, the background key, or leave key NumParts unused
ChanSpan == 3
\* the element to render ranges up to ExtraLayers past the last limb's layer
ExtraLayers == 1
\* the caller passes 0..POSE_MAX_PEOPLE+ExtraPeople people
ExtraPeople == 1
\* successful cudaMalloc calls over one renderer's life
MaxAllocs == 2

(***************************************************************************)
(* Strings.                                                                *)
(***************************************************************************)
Arrow == <<"-", ">">>
SuffixX == <<"(", "X", ")">>
SuffixY == <<"(", "Y", ")">>
EmptyString == << >>
Heatmaps == <<"H", "e", "a", "t", "m", "a", "p", "s">>
PAFs == <<"P", "A", "F", "s", " ", "(", "P", "a", "r", "t", " ", "A", "f", "f",
          "i", "n", "i", "t", "y", " ", "F", "i", "e", "l", "d", "s", ")">>

\* std::string::find(ch): the first 0-based position of ch, or npos (here Len(s))
StrFind(s, ch) ==
    IF \E i \in 1..Len(s) : s[i] = ch
    THEN (CHOOSE i \in 1..Len(s) : s[i] = ch /\ \A j \in 1..(i - 1) : s[j] # ch) - 1
    ELSE Len(s)

\* std::string::substr(0, n); n = npos keeps the whole string
SubstrFromStart(s, n) == SubSeq(s, 1, IF n < Len(s) THEN n ELSE Len(s))

StripSuffixWhole(name) == name
\* elementRenderedName.substr(0, elementRenderedName.find("("))
StripSuffix(name) == SubstrFromStart(name, StrFind(name, "("))

(***************************************************************************)
(* Containers.                                                             *)
(***************************************************************************)
InRange(v, i) == i \in 0..(Len(v) - 1)
\* std::vector::at(i), for an i that InRange accepts
VecAt(v, i) == v[i + 1]
\* std::map::operator[](k) = val
MapPut(m, k, val) == [x \in (DOMAIN m) \cup {k} |-> IF x = k THEN val ELSE m[x]]
EmptyMap == [x \in {} |-> EmptyString]

(***************************************************************************)
(* Pose models: the tables of poseParameters.hpp, which this translation   *)
(* unit only reads.  A pose model is a record                              *)
(*   numberBodyParts : POSE_NUMBER_BODY_PARTS[poseModel]                   *)
(*   partNames       : getPoseBodyPartMapping(poseModel)                   *)
(*   bodyPartPairs   : POSE_BODY_PART_PAIRS[poseModel]                     *)
(*   mapIdx          : POSE_MAP_IDX[poseModel]                             *)
(***************************************************************************)
PartNamePool ==
    << <<"n", "o", "s", "e">>, <<"n", "e", "c", "k">>, <<"R", "s", "h", "o">>,
       <<"R", "e", "l", "b">>, <<"R", "w", "r", "i">>, <<"L", "s", "h", "o">> >>
Background == <<"B", "k", "g">>

\* part names 0..n-1, and with hasBkg a further entry "Bkg" at key n
PartNames(n, hasBkg) ==
    [i \in 0..(IF hasBkg THEN n ELSE n - 1) |->
        IF i = n THEN Background ELSE PartNamePool[i + 1]]

\* limb k of a generated model joins part k to part k+1, cyclically
GeneratedPairs(n, limbs) ==
    [j \in 1..(2 * limbs) |->
        IF j % 2 = 1 THEN ((j - 1) \div 2) % n ELSE (((j - 1) \div 2) + 1) % n]

\* limb k's X component in channel c[k], its Y component in the next channel
GeneratedMapIdx(c) ==
    [j \in 1..(2 * Len(c)) |->
        IF j % 2 = 1 THEN c[(j + 1) \div 2] ELSE c[j \div 2] + 1]

GeneratedModels ==
    { [numberBodyParts |-> NumParts,
       partNames |-> PartNames(NumParts, hasBkg),
       bodyPartPairs |-> GeneratedPairs(NumParts, Len(c)),
       mapIdx |-> GeneratedMapIdx(c)] :
         hasBkg \in BOOLEAN,
         c \in UNION { [1..l -> (NumParts - 1)..(NumParts - 1 + ChanSpan)] : l \in 0..MaxLimbs } }

\* 5 parts, one limb nose->neck in channels 5 and 6, no background entry
FivePartModel ==
    [numberBodyParts |-> 5,
     partNames |-> PartNames(5, FALSE),
     bodyPartPairs |-> <<0, 1>>,
     mapIdx |-> <<5, 6>>]

\* 3 parts and a background entry, two limbs in channels 4..7 (the layout of
\* the shipped models: heat maps 0..N, affinity channels from N+1)
BkgModel ==
    [numberBodyParts |-> 3,
     partNames |-> PartNames(3, TRUE),
     bodyPartPairs |-> <<1, 2, 0, 1>>,
     mapIdx |-> <<6, 7, 4, 5>>]

NumLimbs(t) == Len(t.bodyPartPairs) \div 2
ChannelSet(t) == { t.mapIdx[j] : j \in 1..Len(t.mapIdx) }
\* the affinity channels are distinct and disjoint from the part-name keys
WellFormed(t) ==
    /\ Len(t.mapIdx) = Len(t.bodyPartPairs)
    /\ \A i, j \in 1..Len(t.mapIdx) : i # j => t.mapIdx[i] # t.mapIdx[j]
    /\ ChannelSet(t) \cap DOMAIN t.partNames = {}

(***************************************************************************)
(* createPartToName                                                        *)
(***************************************************************************)
LimbName(m, a, b, suffix) == m[a] \o Arrow \o m[b] \o suffix

SynthesizeLimbXOnly(m, a, b, idxA, idxB) == MapPut(m, idxA, LimbName(m, a, b, SuffixX))
\* lines 27-28: the (Y) entry is built from the table the (X) entry was
\* already stored in
SynthesizeLimb(m, a, b, idxA, idxB) ==
    LET mX == MapPut(m, idxA, LimbName(m, a, b, SuffixX))
    IN  MapPut(mX, idxB, LimbName(mX, a, b, SuffixY))

RECURSIVE PartToNameLoop(_, _, _)
\* the loop of lines 21-29 from index bodyPart on; threw: an at() failed
PartToNameLoop(t, m, bodyPart) ==
    IF bodyPart >= Len(t.bodyPartPairs) THEN [threw |-> FALSE, map |-> m]
    ELSE IF ~(/\ InRange(t.bodyPartPairs, bodyPart + 1)
              /\ InRange(t.mapIdx, bodyPart)
              /\ InRange(t.mapIdx, bodyPart + 1))
         THEN [threw |-> TRUE, map |-> m]
    ELSE LET a == VecAt(t.bodyPartPairs, bodyPart)
             b == VecAt(t.bodyPartPairs, bodyPart + 1)
             idxA == VecAt(t.mapIdx, bodyPart)
             idxB == VecAt(t.mapIdx, bodyPart + 1)
         IN  IF a \notin DOMAIN m \/ b \notin DOMAIN m
             THEN [threw |-> TRUE, map |-> m]
             ELSE PartToNameLoop(t, SynthesizeLimb(m, a, b, idxA, idxB), bodyPart + 2)

\* an exception is reported and the empty map returned (lines 33-37)
createPartToName(t) ==
    LET r == PartToNameLoop(t, t.partNames, 0)
    IN  IF r.threw THEN EmptyMap ELSE r.map

(***************************************************************************)
(* Collaborators of renderPose.  A frame's calls are logged in order as    *)
(* records: fn the function, arg its distinguishing argument (element,     *)
(* channel, person count or element count), dst the device pointer handed  *)
(* over (0 is nullptr), alpha the opacity passed to a kernel.              *)
(***************************************************************************)
\* POSE_MAX_PEOPLE of poseParameters.hpp, scaled down
POSE_MAX_PEOPLE == 2

Call(fn, arg, dst, alpha) == [fn |-> fn, arg |-> arg, dst |-> dst, alpha |-> alpha]

Kernels == {"renderPoseGpu", "renderBodyPartGpu", "renderBodyPartsGpu",
            "renderPartAffinityFieldsGpu", "renderPartAffinityFieldGpu"}

\* (mBlendOriginalFrame ? getAlphaHeatMap() : 1.f)
HeatMapAlpha(blend) == IF blend THEN "alphaHeatMap" ELSE "one"

\* what cudaCheck can find in a frame: nothing; an error already pending at
\* the frame's first cudaCheck ("early"); an error raised by the dispatch or
\* the readback, found by the cudaCheck of line 202 ("late")
DeviceErrors == {"none", "early", "late"}

Sentinel == [index |-> -1, name |-> EmptyString]

\* the handler of lines 206-210: report, return (-1, "")
Failed(calls, errors, readback) ==
    [ret |-> Sentinel, calls |-> calls, errors |-> errors + 1, readback |-> readback]

\* error(message) or a failing cudaCheck at a check site: reports and throws
ErrorRaised(calls, readback) == Failed(calls, 1, readback)

(***************************************************************************)
(* renderPose                                                              *)
(***************************************************************************)
InvalidScaleNever(scaleNetToOutput) == FALSE
\* line 165
InvalidScale(scaleNetToOutput) == scaleNetToOutput = -1

RenderGuardNoBlend(numberPeople, elementRendered, blend) ==
    numberPeople > 0 \/ elementRendered # 0
\* line 150
RenderGuard(numberPeople, elementRendered, blend) ==
    numberPeople > 0 \/ elementRendered # 0 \/ ~blend

numberBodyPartsNoBkg(numberBodyParts) == numberBodyParts
\* line 155
numberBodyPartsPlusBkg(numberBodyParts) == numberBodyParts + 1

affinityPartOffByOne(elementRendered, plusBkg) == (elementRendered - plusBkg - 2) * 2
\* line 191
affinityPart(elementRendered, plusBkg) == (elementRendered - plusBkg - 3) * 2

\* lines 157-162: upload the keypoints if there are any, draw the skeleton
DrawKeypoints(t, pGpu, numberPeople) ==
    (IF numberPeople > 0
     THEN <<Call("cudaMemcpy", numberPeople * t.numberBodyParts * 3, pGpu, "none")>>
     ELSE << >>)
    \o <<Call("renderPoseGpu", numberPeople, pGpu, "alphaKeypoint")>>

\* lines 157-198: [threw, errors, name, calls] of the dispatch on elementRendered
DrawElement(t, table, pGpu, blend, elementRendered, numberPeople, scaleNetToOutput) ==
    LET plusBkg == numberBodyPartsPlusBkg(t.numberBodyParts)
        alpha == HeatMapAlpha(blend)
        Drawn(name, calls) == [threw |-> FALSE, errors |-> 0, name |-> name, calls |-> calls]
        \* error() reported `errors` times before the throw; a failing at() throws unreported
        Threw(errors) == [threw |-> TRUE, errors |-> errors, name |-> EmptyString, calls |-> << >>]
    IN  IF elementRendered = 0
        THEN Drawn(EmptyString, DrawKeypoints(t, pGpu, numberPeople))
        ELSE IF InvalidScale(scaleNetToOutput) THEN Threw(1)
        ELSE IF elementRendered <= plusBkg
        THEN IF (elementRendered - 1) \notin DOMAIN table THEN Threw(0)
             ELSE Drawn(table[elementRendered - 1],
                        <<Call("renderBodyPartGpu", elementRendered, 0, alpha)>>)
        ELSE IF elementRendered = plusBkg + 1
        THEN Drawn(Heatmaps, <<Call("renderBodyPartsGpu", 0, 0, alpha)>>)
        ELSE IF elementRendered = plusBkg + 2
        THEN Drawn(PAFs, <<Call("renderPartAffinityFieldsGpu", 0, 0, alpha)>>)
        ELSE LET part == affinityPart(elementRendered, plusBkg)
             IN  IF ~InRange(t.mapIdx, part) THEN Threw(0)
                 ELSE LET affinityPartMapped == VecAt(t.mapIdx, part)
                      IN  IF affinityPartMapped \notin DOMAIN table THEN Threw(0)
                          ELSE Drawn(StripSuffix(table[affinityPartMapped]),
                                     <<Call("renderPartAffinityFieldGpu",
                                            affinityPartMapped, 0, alpha)>>)

PostDispatchNoReadback(calls) == calls
\* line 201
PostDispatch(calls) == Append(calls, Call("gpuToCpuMemoryIfLastRenderer", 0, 0, "none"))

\* lines 200-204: readback (into outputData if this is the last renderer),
\* cudaCheck, return the pair
Finish(calls, elementRendered, name, deviceError, lastRenderer) ==
    IF deviceError # "none"
    THEN ErrorRaised(PostDispatch(calls), lastRenderer)
    ELSE [ret |-> [index |-> elementRendered, name |-> name],
          calls |-> PostDispatch(calls), errors |-> 0, readback |-> lastRenderer]

\* the body of renderPose: [ret, calls, errors, readback]
RenderPoseResult(t, table, pGpu, blend, outputEmpty, elementRendered, numberPeople, scaleNetToOutput, deviceError, lastRenderer) ==
    IF outputEmpty THEN ErrorRaised(<< >>, FALSE)
    ELSE IF RenderGuard(numberPeople, elementRendered, blend)
    THEN LET upload == <<Call("cpuToGpuMemoryIfNotCopiedYet", 0, 0, "none")>>
         IN  IF deviceError = "early" THEN ErrorRaised(upload, FALSE)
             ELSE LET d == DrawElement(t, table, pGpu, blend, elementRendered,
                                       numberPeople, scaleNetToOutput)
                  IN  IF d.threw THEN Failed(upload, d.errors, FALSE)
                      ELSE Finish(upload \o d.calls, elementRendered, d.name,
                                  deviceError, lastRenderer)
    ELSE Finish(<< >>, elementRendered, EmptyString, deviceError, lastRenderer)

(***************************************************************************)
(* State.                                                                  *)
(***************************************************************************)
VARIABLES
    mPoseModel,           \* the tables of the renderer's pose model
    mPartIndexToName,     \* the label table
    mBlendOriginalFrame,
    pGpuPose,             \* 0 is nullptr, otherwise the id of a device allocation
    deviceAllocs,         \* ids of the device allocations not freed
    allocCount,           \* successful cudaMalloc calls so far
    freed,                \* the non-null pointers passed to cudaFree, in order
    alive,                \* FALSE once the destructor has run
    frame                 \* the renderPose call the caller has not yet taken the result of

vars == <<mPoseModel, mPartIndexToName, mBlendOriginalFrame, pGpuPose, deviceAllocs,
          allocCount, freed, alive, frame>>

NoFrame ==
    [called |-> FALSE, outputEmpty |-> FALSE, elementRendered |-> 0, numberPeople |-> 0,
     scaleNetToOutput |-> -1, deviceError |-> "none", lastRenderer |-> FALSE,
     blend |-> FALSE, pGpu |-> 0, live |-> {},
     ret |-> Sentinel, calls |-> << >>, errors |-> 0, readback |-> FALSE]

\* the constructor, lines 40-55
Constructed(models) ==
    /\ mPoseModel \in models
    /\ mPartIndexToName = createPartToName(mPoseModel)
    /\ mBlendOriginalFrame \in BOOLEAN
    /\ pGpuPose = 0
    /\ deviceAllocs = {}
    /\ allocCount = 0
    /\ freed = << >>
    /\ alive = TRUE
    /\ frame = NoFrame

Init == Constructed({FivePartModel, BkgModel})

InitModels == Constructed(GeneratedModels)

\* lines 70-85; a failing cudaMalloc leaves pGpuPose as it was, cudaCheck
\* reports it and the handler swallows it
initializationOnThread(mallocOk) ==
    /\ alive /\ ~frame.called
    /\ allocCount < MaxAllocs
    /\ IF mallocOk
       THEN /\ pGpuPose' = allocCount + 1
            /\ deviceAllocs' = deviceAllocs \cup {allocCount + 1}
            /\ allocCount' = allocCount + 1
       ELSE UNCHANGED <<pGpuPose, deviceAllocs, allocCount>>
    /\ UNCHANGED <<mPoseModel, mPartIndexToName, mBlendOriginalFrame, freed, alive, frame>>

\* lines 113-123
setBlendOriginalFrame(blendOriginalFrame) ==
    /\ alive /\ ~frame.called
    /\ mBlendOriginalFrame' = blendOriginalFrame
    /\ UNCHANGED <<mPoseModel, mPartIndexToName, pGpuPose, deviceAllocs, allocCount,
                   freed, alive, frame>>

\* lines 137-211; elementRendered is the value spElementToRender->load() returns
renderPose(outputEmpty, elementRendered, numberPeople, scaleNetToOutput, deviceError, lastRenderer) ==
    /\ alive /\ ~frame.called
    /\ frame' =
         [called |-> TRUE, outputEmpty |-> outputEmpty, elementRendered |-> elementRendered,
          numberPeople |-> numberPeople, scaleNetToOutput |-> scaleNetToOutput,
          deviceError |-> deviceError, lastRenderer |-> lastRenderer,
          blend |-> mBlendOriginalFrame, pGpu |-> pGpuPose, live |-> deviceAllocs]
         @@ RenderPoseResult(mPoseModel, mPartIndexToName, pGpuPose, mBlendOriginalFrame,
                             outputEmpty, elementRendered, numberPeople, scaleNetToOutput,
                             deviceError, lastRenderer)
    /\ UNCHANGED <<mPoseModel, mPartIndexToName, mBlendOriginalFrame, pGpuPose,
                   deviceAllocs, allocCount, freed, alive>>

\* the caller takes the returned pair and goes on to its next call
frameReturned ==
    /\ frame.called
    /\ frame' = NoFrame
    /\ UNCHANGED <<mPoseModel, mPartIndexToName, mBlendOriginalFrame, pGpuPose,
                   deviceAllocs, allocCount, freed, alive>>

\* lines 57-68: cudaFree(pGpuPose), a no-operation on nullptr
destructor ==
    /\ alive /\ ~frame.called
    /\ alive' = FALSE
    /\ IF pGpuPose # 0
       THEN /\ deviceAllocs' = deviceAllocs \ {pGpuPose}
            /\ freed' = Append(freed, pGpuPose)
       ELSE UNCHANGED <<deviceAllocs, freed>>
    /\ UNCHANGED <<mPoseModel, mPartIndexToName, mBlendOriginalFrame, pGpuPose,
                   allocCount, frame>>

\* the elements the control layer can select for pose model t
Layers(t) == 0..(t.numberBodyParts + 3 + NumLimbs(t) + ExtraLayers)
PeopleCounts == 0..(POSE_MAX_PEOPLE + ExtraPeople)
Scales == {-1, 1}

Next ==
    \/ \E mallocOk \in BOOLEAN : initializationOnThread(mallocOk)
    \/ \E b \in BOOLEAN : setBlendOriginalFrame(b)
    \/ \E outputEmpty \in BOOLEAN, elementRendered \in Layers(mPoseModel),
          numberPeople \in PeopleCounts, scaleNetToOutput \in Scales,
          deviceError \in DeviceErrors, lastRenderer \in BOOLEAN :
            renderPose(outputEmpty, elementRendered, numberPeople, scaleNetToOutput,
                       deviceError, lastRenderer)
    \/ frameReturned
    \/ destructor

Spec == Init /\ [][Next]_vars

\* frames over every generated pose model, by the last renderer of the pipeline
NextModels ==
    \/ \E outputEmpty \in BOOLEAN, elementRendered \in Layers(mPoseModel),
          numberPeople \in {0, POSE_MAX_PEOPLE}, scaleNetToOutput \in Scales,
          deviceError \in DeviceErrors :
            renderPose(outputEmpty, elementRendered, numberPeople, scaleNetToOutput,
                       deviceError, TRUE)
    \/ frameReturned

SpecModels == InitModels /\ [][NextModels]_vars
(***************************************************************************)
(* Properties.                                                             *)
(***************************************************************************)
KernelCalls(calls) == SelectSeq(calls, LAMBDA c : c.fn \in Kernels)
CallsTo(calls, fn) == SelectSeq(calls, LAMBDA c : c.fn = fn)
Chars(s) == { s[i] : i \in 1..Len(s) }
Readback == Call("gpuToCpuMemoryIfLastRenderer", 0, 0, "none")

\* a frame over a non-empty output buffer in which cudaCheck finds nothing
CleanFrame == frame.called /\ ~frame.outputEmpty /\ frame.deviceError = "none"
\* ... that also has a valid net-to-output scale
ScaledFrame == CleanFrame /\ frame.scaleNetToOutput # -1

\* a frame that selects body part or background layer 1..numberBodyParts+1
PartFrame ==
    /\ ScaledFrame
    /\ frame.elementRendered \in 1..(mPoseModel.numberBodyParts + 1)

PartLabelReturned ==
    /\ frame.ret = [index |-> frame.elementRendered,
                    name |-> mPartIndexToName[frame.elementRendered - 1]]
    /\ KernelCalls(frame.calls) =
         <<Call("renderBodyPartGpu", frame.elementRendered, 0, HeatMapAlpha(frame.blend))>>

LimbOf(t, elementRendered) == elementRendered - t.numberBodyParts - 4
\* "<partA>-><partB>" from the part names of limb k's endpoints
BaseLimbName(t, k) ==
    t.partNames[t.bodyPartPairs[2 * k + 1]] \o Arrow \o t.partNames[t.bodyPartPairs[2 * k + 2]]

\* a frame that selects the layer of an existing limb
LimbFrame ==
    /\ ScaledFrame
    /\ frame.elementRendered > mPoseModel.numberBodyParts + 3
    /\ LimbOf(mPoseModel, frame.elementRendered) < NumLimbs(mPoseModel)

LimbLabelReturned ==
    LET k == LimbOf(mPoseModel, frame.elementRendered)
    IN  /\ frame.ret.index = frame.elementRendered
        /\ "(" \notin Chars(frame.ret.name)
        /\ frame.ret.name = BaseLimbName(mPoseModel, k)
        /\ KernelCalls(frame.calls) =
             <<Call("renderPartAffinityFieldGpu", mPoseModel.mapIdx[2 * k + 1], 0,
                    HeatMapAlpha(frame.blend))>>

Undisturbed(t, k) ==
    /\ \A j \in (2 * k + 2)..Len(t.mapIdx) : t.mapIdx[j] # t.mapIdx[2 * k + 1]
    /\ \A j \in 1..(2 * k) :
          t.mapIdx[j] \notin {t.bodyPartPairs[2 * k + 1], t.bodyPartPairs[2 * k + 2]}

SkeletonFrame == CleanFrame /\ frame.elementRendered = 0

\* C3 as stated: every skeleton frame invokes the skeleton kernel exactly once
\* and returns the empty label, whatever the person count and the blend flag
C3_Original ==
    SkeletonFrame =>
        /\ Len(CallsTo(frame.calls, "renderPoseGpu")) = 1
        /\ frame.ret.name = EmptyString

\* C3: a skeleton frame returns (0, ""); it invokes the skeleton kernel exactly
\* once, and no other kernel, unless there are no people and the blend flag
\* is set: then nothing is uploaded or drawn and only the readback is called
C3_Skeleton ==
    SkeletonFrame =>
        /\ frame.ret = [index |-> 0, name |-> EmptyString]
        /\ IF frame.numberPeople > 0 \/ ~frame.blend
           THEN KernelCalls(frame.calls) =
                  <<Call("renderPoseGpu", frame.numberPeople, frame.pGpu, "alphaKeypoint")>>
           ELSE frame.calls = <<Readback>>

C3_Witness ==
    /\ SkeletonFrame
    /\ frame.numberPeople = 0
    /\ ~frame.blend
    /\ Len(CallsTo(frame.calls, "renderPoseGpu")) = 1

\* C4: a frame over an empty output buffer, or one that selects a layer other
\* than the skeleton with the sentinel scale -1, reports an error, invokes no
\* kernel and returns (-1, ""); over an empty output buffer it makes no call at
\* all: no frame upload, no keypoint upload, no readback
C4_Precondition ==
    (/\ frame.called
     /\ \/ frame.outputEmpty
        \/ frame.elementRendered # 0 /\ frame.scaleNetToOutput = -1)
        => /\ frame.errors >= 1
           /\ KernelCalls(frame.calls) = << >>
           /\ frame.ret = Sentinel
           /\ frame.outputEmpty => (frame.calls = << >> /\ ~frame.readback)

C4_Witness ==
    /\ frame.called
    /\ ~frame.outputEmpty
    /\ frame.deviceError = "none"
    /\ frame.elementRendered # 0
    /\ frame.scaleNetToOutput = -1
    /\ frame.ret = Sentinel
    /\ Len(frame.calls) = 1

\* C5: a frame that returns a negative layer index invoked no kernel and did
\* not write the caller's output buffer
C5_SentinelMeansNoRender ==
    (frame.called /\ frame.ret.index < 0)
        => /\ KernelCalls(frame.calls) = << >>
           /\ ~frame.readback

NoseNeck == <<"n", "o", "s", "e", "-", ">", "n", "e", "c", "k">>

FivePartFrame == ScaledFrame /\ mPoseModel = FivePartModel

\* C6 as stated: in the 5-part model layer 6 returns "nose->neck" and layer 5
\* is the direct lookup that returns "nose->neck(X)"
C6_Original ==
    FivePartFrame =>
        /\ frame.elementRendered = 6 => frame.ret.name = NoseNeck
        /\ frame.elementRendered = 5 => frame.ret.name = NoseNeck \o SuffixX

\* C6: in the 5-part model layer 9 is the single-affinity layer of the limb and
\* returns "nose->neck" with the suffix stripped; layer 6 is the direct lookup
\* of key 5 and returns "nose->neck(X)"; layer 5 returns the name of part 4
C6_Scenario ==
    FivePartFrame =>
        /\ frame.elementRendered = 9 =>
              /\ frame.ret = [index |-> 9, name |-> NoseNeck]
              /\ KernelCalls(frame.calls) =
                   <<Call("renderPartAffinityFieldGpu", 5, 0, HeatMapAlpha(frame.blend))>>
        /\ frame.elementRendered = 6 =>
              /\ frame.ret = [index |-> 6, name |-> NoseNeck \o SuffixX]
              /\ KernelCalls(frame.calls) =
                   <<Call("renderBodyPartGpu", 6, 0, HeatMapAlpha(frame.blend))>>
        /\ frame.elementRendered = 5 =>
              frame.ret = [index |-> 5, name |-> FivePartModel.partNames[4]]

C6_Witness ==
    /\ FivePartFrame
    /\ frame.elementRendered = 9
    /\ frame.ret.name = NoseNeck

\* C7 as stated: the label table of a well-formed pose model has
\* numberBodyParts + (number of limbs) entries
C7_Original ==
    WellFormed(mPoseModel) =>
        Cardinality(DOMAIN mPartIndexToName)
            = mPoseModel.numberBodyParts + NumLimbs(mPoseModel)

\* C7: the label table of a well-formed pose model has one entry per part
\* name and two per limb
C7_TableSize ==
    WellFormed(mPoseModel) =>
        Cardinality(DOMAIN mPartIndexToName)
            = Cardinality(DOMAIN mPoseModel.partNames) + 2 * NumLimbs(mPoseModel)

C7_Witness ==
    /\ WellFormed(mPoseModel)
    /\ NumLimbs(mPoseModel) = 2
    /\ Cardinality(DOMAIN mPartIndexToName) = mPoseModel.numberBodyParts + 4

\* C8: the keypoint buffer is allocated at most once; after destruction no
\* allocation is left, every allocation was freed, and none twice
C8_AllocatedOnceFreedOnce ==
    /\ allocCount <= 1
    /\ ~alive =>
          /\ deviceAllocs = {}
          /\ Len(freed) = allocCount
          /\ \A i, j \in 1..Len(freed) : i # j => freed[i] # freed[j]

\* C9: a frame invokes at most one kernel; a kernel is preceded by exactly one
\* frame upload call and followed by exactly one readback call; no readback
\* comes before a kernel; a frame that returns its layer, and a frame that
\* skips the dispatch, called the readback exactly once, last
C9_Ordering ==
    frame.called =>
        LET calls == frame.calls
            IsKernel(i) == calls[i].fn \in Kernels
            Positions(fn) == { i \in 1..Len(calls) : calls[i].fn = fn }
            uploads == Positions("cpuToGpuMemoryIfNotCopiedYet")
            readbacks == Positions("gpuToCpuMemoryIfLastRenderer")
        IN  /\ Len(KernelCalls(calls)) <= 1
            /\ \A i \in 1..Len(calls) : IsKernel(i) =>
                  /\ Cardinality(uploads) = 1
                  /\ \A u \in uploads : u < i
                  /\ Cardinality(readbacks) = 1
                  /\ \A r \in readbacks : r > i
            /\ \A r \in readbacks : \A i \in 1..Len(calls) : IsKernel(i) => i < r
            /\ (\/ frame.ret.index >= 0
                \/ /\ ~frame.outputEmpty
                   /\ frame.numberPeople = 0 /\ frame.elementRendered = 0 /\ frame.blend)
                  => readbacks = {Len(calls)}

C9_Witness ==
    /\ frame.called
    /\ Len(frame.calls) = 4
    /\ frame.calls[1].fn = "cpuToGpuMemoryIfNotCopiedYet"
    /\ frame.calls[2].fn = "cudaMemcpy"
    /\ frame.calls[3].fn = "renderPoseGpu"
    /\ frame.calls[4].fn = "gpuToCpuMemoryIfLastRenderer"

\* the elements the buffer initializationOnThread allocates holds
Capacity(t) == POSE_MAX_PEOPLE * t.numberBodyParts * 3

\* C10: a keypoint upload of renderPose goes to an allocated buffer and is no
\* larger than the buffer
C10_UploadWithinBuffer ==
    frame.called =>
        \A i \in 1..Len(frame.calls) : frame.calls[i].fn = "cudaMemcpy" =>
            /\ frame.calls[i].dst \in frame.live
            /\ frame.calls[i].arg <= Capacity(mPoseModel)
=============================================================================
